---- MODULE Spec2Model ----
(***************************************************************************)
(* A model of waferslim's protocol core (src/src/waferslim/protocol.py):   *)
(* the chunk codec (pack / unpack), the Results collector, the instruction *)
(* factory and the RequestResponder session loop; and of the converter     *)
(* registry (src/src/waferslim/converters.py).                             *)
(*                                                                         *)
(* Strings are sequences of one-character strings, so that lengths,        *)
(* slices and positional parsing are computed as the code computes them.   *)
(* Python values are tagged records [t, v]: t is the Python type.          *)
(***************************************************************************)
EXTENDS Integers, Sequences, FiniteSets, TLC

VARIABLES
    \* ---- codec lane: one pack / corrupt / unpack experiment
    cpc,        \* "in" | "packed" | "corrupt" | "done"
    ctree,      \* the item list handed to pack
    cwire,      \* the packed string (possibly corrupted afterwards)
    cfault,     \* which corruption was applied to cwire ("none" if none)
    cresult,    \* what unpack(cwire) produced
    \* ---- Results collector (Results._collected) and the last call made on it
    collected,
    call,
    \* ---- session (RequestResponder.respond_to_request)
    pc,         \* "handshake" | "read_len" | "read_body" | "done" | "failed"
    received,   \* _message_loop's received
    sent,       \* _message_loop's sent
    ack_bytes,  \* respond_to_request's ack_bytes
    message_length, \* the length parsed from the last header
    data,       \* the last body received
    batch,      \* the last unpacked instruction list
    snapshot,   \* results.collection() as packed into the last response
    frame,      \* the last formatted response handed to request.send
    context,    \* the session's execution context
    log,        \* the I/O events of the connection, oldest first
    error,      \* the exception that ended the session ("none" if none)
    returned,   \* respond_to_request's return value
    inbound,    \* the body the driver has written and the server not yet read
    driver,     \* how many instructions and batches the driver has sent
    \* ---- several sessions served side by side
    heap,       \* the Results and ExecutionContext objects created so far
    lanes,      \* per session: its position, its objects, its traffic
    \* ---- a collector and the snapshots handed out by collection()
    lists,      \* the list objects created so far, by reference
    snap,       \* the collector's list, the last snapshot, and what each
                \* was given by its own operations
    \* ---- converters.py
    registry,   \* _ALL_CONVERTERS: the converter registered for each type
    reg_call,   \* the last call of register_converter and its outcome
    \* ---- the numeric blocks written for large counts and lengths
    numeric     \* the last count or length written and the block it gave

codecVars   == <<cpc, ctree, cwire, cfault, cresult>>
resultsVars == <<collected, call>>
sessionVars == <<pc, received, sent, ack_bytes, message_length, data, batch,
                 snapshot, frame, context, log, error, returned, inbound,
                 driver>>
laneVars == <<heap, lanes>>
snapVars == <<lists, snap>>
registryVars == <<registry, reg_call>>
numericVars == <<numeric>>
vars == <<codecVars, resultsVars, sessionVars, laneVars, snapVars, registryVars,
          numericVars>>

----------------------------------------------------------------------------
(* Python values *)

StrV(s)  == [t |-> "str",  v |-> s]
ListV(l)  == [t |-> "list", v |-> l]
IntV(n)  == [t |-> "int",  v |-> n]
BoolV(b) == [t |-> "bool", v |-> b]
NoneV   == [t |-> "none", v |-> <<>>]

\* Python truth value of a value (bool(x))
Truthy(x) ==
    CASE x.t = "str"  -> x.v # <<>>
      [] x.t = "list" -> x.v # <<>>
      [] x.t = "int"  -> x.v # 0
      [] x.t = "bool" -> x.v
      [] x.t = "none" -> FALSE
      [] OTHER        -> TRUE     \* a plain object (Results.NO_RESULT)

Digit == <<"0", "1", "2", "3", "4", "5", "6", "7", "8", "9">>
IsDigit(c) == \E d \in 1..10 : Digit[d] = c
DigitVal(c) == (CHOOSE d \in 1..10 : Digit[d] = c) - 1

RECURSIVE Decimal(_)
Decimal(n) ==
    IF n < 10 THEN <<Digit[n + 1]>>
    ELSE Decimal(n \div 10) \o <<Digit[(n % 10) + 1]>>

RECURSIVE PyStr(_), PyRepr(_), ReprItems(_)

\* str(x) for the value kinds the model uses; the str of a list is its repr
PyStr(x) ==
    CASE x.t = "str"  -> x.v
      [] x.t = "int"  -> Decimal(x.v)
      [] x.t = "bool" -> IF x.v THEN <<"T", "r", "u", "e">>
                                ELSE <<"F", "a", "l", "s", "e">>
      [] x.t = "none" -> <<"N", "o", "n", "e">>
      [] x.t = "list" -> <<"[">> \o ReprItems(x.v) \o <<"]">>

\* repr(x): a string in quotes (no quote or backslash occurs in the model's
\* strings), everything else as str
PyRepr(x) ==
    IF x.t = "str" THEN <<"'">> \o x.v \o <<"'">> ELSE PyStr(x)

\* the reprs of the items of a list, joined by ', '
ReprItems(items) ==
    IF items = <<>> THEN <<>>
    ELSE IF Len(items) = 1 THEN PyRepr(items[1])
    ELSE PyRepr(items[1]) \o <<",", " ">> \o ReprItems(Tail(items))

\* len(s.encode('utf-8')): every character of the model's alphabet is ASCII
\* except "é", which encodes to two bytes
ByteLen(s) == Len(s) + Cardinality({ i \in 1..Len(s) : s[i] = "é" })

\* s[a:b] with Python's clamping (0-based, b exclusive)
Slice(s, a, b) ==
    LET hi == IF b < Len(s) THEN b ELSE Len(s)
    IN  IF a >= hi THEN <<>> ELSE SubSeq(s, a + 1, hi)

\* the outcome of an expression: a value, or the exception it raised
Ok(v)    == [err |-> "none", val |-> v]
Raise(e) == [err |-> e, val |-> <<>>]

RECURSIVE DigitsValue(_)
DigitsValue(s) ==
    IF s = <<>> THEN 0
    ELSE 10 * DigitsValue(SubSeq(s, 1, Len(s) - 1)) + DigitVal(s[Len(s)])

\* int(s) for a string over the model's alphabet (no sign, no blank)
PyInt(s) ==
    IF s # <<>> /\ \A i \in 1..Len(s) : IsDigit(s[i])
    THEN Ok(DigitsValue(s))
    ELSE Raise("ValueError")

----------------------------------------------------------------------------
(* protocol.py: constants *)

_START_CHUNK == "["
_END_CHUNK == "]"
_SEPARATOR == ":"
_SEPARATOR_LENGTH == 1
_NUMERIC_LENGTH == 6
_NUMERIC_BLOCK_LENGTH == _NUMERIC_LENGTH + _SEPARATOR_LENGTH
_DISCONNECT == <<"b", "y", "e">>
_VERSION == <<"S", "l", "i", "m", " ", "-", "-", " ", "V", "0", ".", "0", "\n">>
_NULL == <<"n", "u", "l", "l">>

RECURSIVE ZeroPad(_, _)
ZeroPad(s, w) == IF Len(s) >= w THEN s ELSE ZeroPad(<<"0">> \o s, w)

\* _NUMERIC_ENCODING % n, i.e. '%06d' % n: at least 6 digits
_NUMERIC_ENCODING(n) == ZeroPad(Decimal(n), _NUMERIC_LENGTH)

\* _ITEM_ENCODING % (n, sep, s), i.e. '%06d%s%s'
_ITEM_ENCODING(n, sep, s) == _NUMERIC_ENCODING(n) \o <<sep>> \o s

----------------------------------------------------------------------------
(* protocol.py: unpack *)

startswith(s, c) == s # <<>> /\ s[1] = c
endswith(s, c)   == s # <<>> /\ s[Len(s)] = c

\* _is_chunk(possible_chunk): without raise_on_failure
_is_chunk(possible_chunk) ==
    startswith(possible_chunk, _START_CHUNK) /\ endswith(possible_chunk, _END_CHUNK)

\* _check_chunk(packed_chunk): _is_chunk with raise_on_failure=True
_check_chunk(packed_chunk) ==
    IF _is_chunk(packed_chunk) THEN "none" ELSE "UnpackingError"

\* _check_separator(packed_chunk, pos): packed_chunk[pos] raises IndexError
\* when pos is past the end of the string
_check_separator(packed_chunk, pos) ==
    IF pos >= Len(packed_chunk) THEN "IndexError"
    ELSE IF _SEPARATOR # packed_chunk[pos + 1] THEN "UnpackingError"
    ELSE "none"

RECURSIVE _unpack_chunk(_), _unpack_items(_, _, _, _)

\* the body of _unpack_chunk's for loop, `remaining` items still to read
_unpack_items(packed_chunk, pos, remaining, chunks) ==
    IF remaining <= 0 THEN Ok(chunks)
    ELSE
    LET item_len == PyInt(Slice(packed_chunk, pos, pos + _NUMERIC_LENGTH))
        sep1     == _check_separator(packed_chunk, pos + _NUMERIC_LENGTH)
        pos1     == pos + _NUMERIC_BLOCK_LENGTH
    IN  IF item_len.err # "none" THEN Raise(item_len.err)
        ELSE IF sep1 # "none" THEN Raise(sep1)
        ELSE
        LET item == Slice(packed_chunk, pos1, pos1 + item_len.val)
            sep2 == _check_separator(packed_chunk, pos1 + item_len.val)
            pos2 == pos1 + item_len.val + _SEPARATOR_LENGTH
        IN  IF sep2 # "none" THEN Raise(sep2)
            ELSE IF _is_chunk(item)
            THEN LET sub_chunk == _unpack_chunk(item)
                 IN  IF sub_chunk.err # "none" THEN sub_chunk
                     ELSE _unpack_items(packed_chunk, pos2, remaining - 1,
                                        Append(chunks, ListV(sub_chunk.val)))
            ELSE _unpack_items(packed_chunk, pos2, remaining - 1,
                               Append(chunks, StrV(item)))

_unpack_chunk(packed_chunk) ==
    IF _check_chunk(packed_chunk) # "none" THEN Raise(_check_chunk(packed_chunk))
    ELSE
    LET chunk_len == PyInt(Slice(packed_chunk, 1, 1 + _NUMERIC_LENGTH))
        sep       == _check_separator(packed_chunk, 1 + _NUMERIC_LENGTH)
    IN  IF chunk_len.err # "none" THEN Raise(chunk_len.err)
        ELSE IF sep # "none" THEN Raise(sep)
        ELSE _unpack_items(packed_chunk, 1 + _NUMERIC_BLOCK_LENGTH,
                           chunk_len.val, <<>>)

\* unpack(packed_string): the argument is always a string here
unpack(packed_string) == _unpack_chunk(packed_string)

----------------------------------------------------------------------------
(* protocol.py: pack *)

RECURSIVE Join(_)
\* _SEPARATOR.join(strings)
Join(strings) ==
    IF strings = <<>> THEN <<>>
    ELSE IF Len(strings) = 1 THEN strings[1]
    ELSE strings[1] \o <<_SEPARATOR>> \o Join(Tail(strings))

RECURSIVE pack(_), _pack_item(_)

\* the string a non-list item is packed as: item and str(item) or 'null'
str_item(item) ==
    IF Truthy(item) /\ PyStr(item) # <<>> THEN PyStr(item) ELSE _NULL

_pack_item(item) ==
    IF item.t = "list" THEN _pack_item(StrV(pack(item.v)))
    ELSE _ITEM_ENCODING(Len(str_item(item)), _SEPARATOR, str_item(item))

pack(item_list) ==
    LET packed == [i \in 1..Len(item_list) |-> _pack_item(item_list[i])]
    IN  <<_START_CHUNK>>
        \o Join(<<_NUMERIC_ENCODING(Len(item_list))>> \o packed)
        \o <<_SEPARATOR>> \o <<_END_CHUNK>>

----------------------------------------------------------------------------
(* The codec lane: pack an item list, possibly corrupt the packed string,  *)
(* unpack it.                                                              *)

\* bounds of the codec lane
MaxItems == 2

\* the strings the claims single out: empty, plain, and the three
\* structural characters alone, at the start and at both ends
CodecStrings ==
    { <<>>, <<"a">>, <<":">>, <<"[">>, <<"]">>, <<"[", "]">> }
NestedStrings == { <<>>, <<"a">> }

SeqsUpTo(S, n) == UNION { [1..k -> S] : k \in 0..n }

NestedLists == { ListV(l) : l \in SeqsUpTo({ StrV(s) : s \in NestedStrings }, MaxItems) }
CodecItems  == { StrV(s) : s \in CodecStrings } \cup NestedLists
Trees       == SeqsUpTo(CodecItems, MaxItems)

\* offset (0-based) in pack(item_list) of the length field of item k
RECURSIVE ItemOffset(_, _)
ItemOffset(item_list, k) ==
    IF k = 1 THEN 1 + _NUMERIC_BLOCK_LENGTH
    ELSE ItemOffset(item_list, k - 1)
         + Len(_pack_item(item_list[k - 1])) + _SEPARATOR_LENGTH

\* s without the character at 0-based offset i
DeleteAt(s, i) == SubSeq(s, 1, i) \o SubSeq(s, i + 2, Len(s))

\* s with the 6 characters from 0-based offset i replaced by digits
ReplaceNumeric(s, i, n) ==
    SubSeq(s, 1, i) \o _NUMERIC_ENCODING(n) \o SubSeq(s, i + _NUMERIC_LENGTH + 1, Len(s))

FaultKinds == {"no_leading", "no_trailing", "no_count_sep",
               "no_length_sep", "no_item_sep", "length_past_end"}

\* the packed string w = pack(item_list) with fault f applied at item k; d is
\* by how much a declared length overruns the buffer
Corrupt(w, item_list, f, k, d) ==
    LET off == ItemOffset(item_list, k)
        L   == Len(_pack_item(item_list[k])) - _NUMERIC_BLOCK_LENGTH
    IN  CASE f = "no_leading"      -> Tail(w)
          [] f = "no_trailing"     -> SubSeq(w, 1, Len(w) - 1)
          [] f = "no_count_sep"    -> DeleteAt(w, 1 + _NUMERIC_LENGTH)
          [] f = "no_length_sep"   -> DeleteAt(w, off + _NUMERIC_LENGTH)
          [] f = "no_item_sep"     -> DeleteAt(w, off + _NUMERIC_BLOCK_LENGTH + L)
          [] f = "length_past_end" ->
                ReplaceNumeric(w, off, Len(w) - (off + _NUMERIC_BLOCK_LENGTH) + d)

CodecPack ==
    /\ cpc = "in"
    /\ cwire' = pack(ctree)
    /\ cpc' = "packed"
    /\ UNCHANGED <<ctree, cfault, cresult>>

CodecCorrupt ==
    /\ cpc = "packed"
    /\ \E f \in FaultKinds, k \in 1..MaxItems, d \in 0..2 :
          /\ f \in {"no_length_sep", "no_item_sep", "length_past_end"} => k <= Len(ctree)
          /\ f \in {"no_leading", "no_trailing", "no_count_sep"} => k = 1
          /\ (f = "length_past_end") = (d > 0)
          /\ cwire' = Corrupt(cwire, ctree, f, k, d)
          /\ cfault' = f
    /\ cpc' = "corrupt"
    /\ UNCHANGED <<ctree, cresult>>

CodecUnpack ==
    /\ cpc \in {"packed", "corrupt"}
    /\ cresult' = unpack(cwire)
    /\ cpc' = "done"
    /\ UNCHANGED <<ctree, cwire, cfault>>
----------------------------------------------------------------------------
(* converters.py: convert_value, the to_string of the registered converter *)
(* for the value's type, str() by default                                  *)

\* TrueFalseConverter.to_string
TrueFalseConverter_to_string(value) ==
    IF value.v = TRUE THEN <<"t", "r", "u", "e">> ELSE <<"f", "a", "l", "s", "e">>

\* Converter.to_string
Converter_to_string(value) == PyStr(value)

RECURSIVE convert_value(_)

\* ListConverter.to_string: the list of the converted items
ListConverter_to_string(values) ==
    [i \in 1..Len(values.v) |-> convert_value(values.v[i])]

\* convert_value(value): the registered converter of the value's type, for
\* the types the model's values have
convert_value(value) ==
    IF value.t = "bool" THEN TrueFalseConverter_to_string(value)
    ELSE IF value.t = "list" THEN ListConverter_to_string(value)
    ELSE Converter_to_string(value)

----------------------------------------------------------------------------
(* protocol.py: Results *)

_OK == <<"O", "K">>
_EXCEPTION == <<"_", "_", "E", "X", "C", "E", "P", "T", "I", "O", "N", "_", "_", ":">>
_NONE_STRING == <<"/", "_", "_", "V", "O", "I", "D", "_", "_", "/">>

ExceptionTypes == {"InstructionException", "NoSuchClassException",
                   "NoSuchConstructorException", "NoSuchInstanceException",
                   "NoSuchMethodException"}

_EXCEPTIONS ==
    [InstructionException       |-> <<"M", "A", "L", "F", "O", "R", "M", "E", "D", "_", "I", "N", "S", "T", "R", "U", "C", "T", "I", "O", "N">>,
     NoSuchClassException       |-> <<"N", "O", "_", "C", "L", "A", "S", "S">>,
     NoSuchConstructorException |-> <<"C", "O", "U", "L", "D", "_", "N", "O", "T", "_", "I", "N", "V", "O", "K", "E", "_", "C", "O", "N", "S", "T", "R", "U", "C", "T", "O", "R">>,
     NoSuchInstanceException    |-> <<"N", "O", "_", "I", "N", "S", "T", "A", "N", "C", "E">>,
     NoSuchMethodException      |-> <<"N", "O", "_", "M", "E", "T", "H", "O", "D", "_", "I", "N", "_", "C", "L", "A", "S", "S">>]

\* an exception object: its type and its args
Exception(type, message) == [type |-> type, args |-> <<StrV(message)>>]

\* Results.NO_RESULT: a plain object, equal only to itself
NO_RESULT == [t |-> "object", v |-> <<>>]

\* completed binding a new list to _collected at every call
completed_on_new_list(coll, instruction_id, result) ==
    LET str_result == IF result = NO_RESULT THEN _OK
                      ELSE IF Truthy(result) THEN PyStr(result)
                      ELSE _NONE_STRING
    IN  <<ListV(<<instruction_id, StrV(str_result)>>)>>
\* Results.completed(instruction, result): the collection afterwards
completed(coll, instruction_id, result) ==
    LET str_result == IF result = NO_RESULT THEN _OK
                      ELSE IF Truthy(result) THEN PyStr(result)
                      ELSE _NONE_STRING
    IN  Append(coll, ListV(<<instruction_id, StrV(str_result)>>))

\* _translate with the blank between the tag and the message left out
_translate_no_blank(exception) ==
    IF exception.type \notin DOMAIN _EXCEPTIONS THEN Raise("KeyError")
    ELSE IF exception.args = <<>> THEN Raise("IndexError")
    ELSE Ok(_EXCEPTION \o <<" ", "m", "e", "s", "s", "a", "g", "e", ":", "<", "<">> \o _EXCEPTIONS[exception.type]
            \o PyStr(exception.args[1]) \o <<">", ">">>)

\* Results._translate(exception)
_translate(exception) ==
    IF exception.type \notin DOMAIN _EXCEPTIONS THEN Raise("KeyError")
    ELSE IF exception.args = <<>> THEN Raise("IndexError")
    ELSE Ok(_EXCEPTION \o <<" ", "m", "e", "s", "s", "a", "g", "e", ":", "<", "<">> \o _EXCEPTIONS[exception.type]
            \o <<" ">> \o PyStr(exception.args[1]) \o <<">", ">">>)

\* Results.raised(instruction, exception): the collection afterwards, or the
\* exception _translate raised
raised(coll, instruction_id, exception) ==
    LET translated == _translate(exception)
    IN  IF translated.err # "none" THEN Raise(translated.err)
        ELSE Ok(Append(coll, ListV(<<instruction_id, StrV(translated.val)>>)))

\* Results.collection(): a new list with the same entries
collection(coll) == [i \in 1..Len(coll) |-> coll[i]]

----------------------------------------------------------------------------
(* The Results lane: calls of completed and raised on one collector *)

MaxCalls == 2

ResultIds == { StrV(<<"1">>), StrV(<<"2">>) }

\* values a fixture method may return
ResultValues ==
    { NoneV, IntV(0), IntV(7), BoolV(FALSE), BoolV(TRUE),
      StrV(<<>>), StrV(<<"h", "e", "l", "l", "o", " ", "w", "o", "r", "l", "d">>) }

ExceptionMessages == { <<"N", "o", "S", "u", "c", "h">>, <<"x">> }

NoCall == [op |-> "none", id |-> NoneV, arg |-> NoneV, before |-> <<>>]

ResultsCompleted ==
    /\ Len(collected) < MaxCalls
    /\ \E id \in ResultIds :
          /\ collected' = completed(collected, id, NO_RESULT)
          /\ call' = [op |-> "completed", id |-> id, arg |-> NO_RESULT,
                      before |-> collected]

ResultsCompletedWith ==
    /\ Len(collected) < MaxCalls
    /\ \E id \in ResultIds, value \in ResultValues :
          /\ collected' = completed(collected, id, value)
          /\ call' = [op |-> "completed_with", id |-> id, arg |-> value,
                      before |-> collected]

ResultsRaised ==
    /\ Len(collected) < MaxCalls
    /\ \E id \in ResultIds, type \in ExceptionTypes, message \in ExceptionMessages :
          LET r == raised(collected, id, Exception(type, message))
          IN  /\ collected' = IF r.err = "none" THEN r.val ELSE collected
              /\ call' = [op |-> "raised", id |-> id,
                          arg |-> Exception(type, message), before |-> collected]

\* lists a fixture method may return
ListResultValues ==
    { ListV(<<>>), ListV(<<StrV(<<"a">>), StrV(<<"b">>)>>),
      ListV(<<IntV(1), BoolV(TRUE)>>) }

\* completed(instruction, result) with a list as the result
ResultsCompletedWithList ==
    /\ Len(collected) < MaxCalls
    /\ \E id \in ResultIds, value \in ListResultValues :
          /\ collected' = completed(collected, id, value)
          /\ call' = [op |-> "completed_with_list", id |-> id, arg |-> value,
                      before |-> collected]

\* exception classes outside _EXCEPTIONS: an error raised by a fixture, and a
\* subclass of NoSuchClassException
OtherExceptionTypes == {"ValueError", "FixtureNoSuchClassException"}

\* raised(instruction, exception) with an exception of such a class
ResultsRaisedOther ==
    /\ Len(collected) < MaxCalls
    /\ \E id \in ResultIds, type \in OtherExceptionTypes, message \in ExceptionMessages :
          LET r == raised(collected, id, Exception(type, message))
          IN  /\ collected' = IF r.err = "none" THEN r.val ELSE collected
              /\ call' = [op |-> "raised_other", id |-> id,
                          arg |-> Exception(type, message), before |-> collected,
                          err |-> r.err]
----------------------------------------------------------------------------
(* protocol.py: instruction_for *)

_INSTRUCTION_TYPES ==
    [make |-> "Make", import |-> "Import", call |-> "Call",
     callAndAssign |-> "CallAndAssign"]

\* the kind tags as they arrive on the wire
KindTags ==
    [make |-> <<"m", "a", "k", "e">>, import |-> <<"i", "m", "p", "o", "r", "t">>, call |-> <<"c", "a", "l", "l">>,
     callAndAssign |-> <<"c", "a", "l", "l", "A", "n", "d", "A", "s", "s", "i", "g", "n">>]

\* _INSTRUCTION_TYPES[instruction_type]: the key whose tag is the string
LookupType(instruction_type) ==
    IF instruction_type.t = "list" THEN Raise("TypeError")     \* unhashable
    ELSE IF \E k \in DOMAIN KindTags : KindTags[k] = instruction_type.v
    THEN Ok(_INSTRUCTION_TYPES[CHOOSE k \in DOMAIN KindTags :
                                   KindTags[k] = instruction_type.v])
    ELSE Raise("KeyError")

\* instruction_for(params): params.pop(1), then params.pop(0), then the
\* constructor of the type looked up
instruction_for(params) ==
    IF params.t # "list" THEN Raise("AttributeError")      \* str has no pop
    ELSE IF Len(params.v) < 2 THEN Raise("IndexError")     \* pop index out of range
    ELSE LET instruction_type == params.v[2]
             instruction_id   == params.v[1]
             rest             == SubSeq(params.v, 3, Len(params.v))
             type             == LookupType(instruction_type)
         IN  IF type.err # "none" THEN Raise(type.err)
             ELSE Ok([type |-> type.val, id |-> instruction_id, params |-> rest])

----------------------------------------------------------------------------
(* execution.py (ExecutionContext and the four Instruction classes) is not *)
(* part of the sources at hand: the engine below follows the              *)
(* specification's sections 4.3 and 4.4, over a host with one module "m"   *)
(* holding one fixture class "F".                                          *)

HostModule == <<"m">>
HostClass  == <<"F">>

\* F's methods: z returns 0, e returns its argument (nothing without one)
HostMethods == { <<"z">>, <<"e">> }

NewContext == [imports |-> <<>>, instances |-> {}, symbols |-> {}]

\* add_import: the module becomes the most recent entry of the path
add_import(ctx, module) ==
    [ctx EXCEPT !.imports =
        <<module>> \o SelectSeq(ctx.imports, LAMBDA m : m # module)]

\* resolve_class: the class is found in a module of the import path
resolve_class(ctx, class_name) ==
    class_name = HostClass /\ \E i \in 1..Len(ctx.imports) : ctx.imports[i] = HostModule

\* the value of symbol `name`, or the reference itself when it is not bound
Substitute(ctx, arg) ==
    IF arg.t = "str" /\ arg.v # <<>> /\ arg.v[1] = "$"
       /\ \E b \in ctx.symbols : b[1] = Tail(arg.v)
    THEN StrV((CHOOSE b \in ctx.symbols : b[1] = Tail(arg.v))[2])
    ELSE arg

\* F.<method>(args)
Invoke(ctx, method, args) ==
    CASE method = <<"z">> -> IntV(0)
      [] method = <<"e">> -> IF args = <<>> THEN NoneV ELSE Substitute(ctx, args[1])

\* the outcome of executing one instruction: the context and the collection
\* afterwards
Outcome(ctx, coll) == [context |-> ctx, collected |-> coll]

Fails(ctx, coll, id, type, message) ==
    Outcome(ctx, raised(coll, id, Exception(type, message)).val)

\* Call and CallAndAssign: the instance, the method, the invocation
execute_call(instruction, ctx, coll, args, symbol) ==
    LET id == instruction.id
    IN  IF Len(args) < 2 \/ args[1].t # "str" \/ args[2].t # "str"
        THEN Fails(ctx, coll, id, "InstructionException", PyStr(id))
        ELSE IF args[1].v \notin ctx.instances
        THEN Fails(ctx, coll, id, "NoSuchInstanceException", args[1].v)
        ELSE IF args[2].v \notin HostMethods
        THEN Fails(ctx, coll, id, "NoSuchMethodException", args[2].v)
        ELSE LET value == Invoke(ctx, args[2].v, SubSeq(args, 3, Len(args)))
                 bound == IF symbol = <<>> THEN ctx
                          ELSE [ctx EXCEPT !.symbols =
                                   { b \in @ : b[1] # symbol[1] }
                                   \cup { <<symbol[1], PyStr(value)>> }]
             IN  Outcome(bound, completed(coll, id, value))

\* Instruction.execute(execution_context, results)
execute(instruction, ctx, coll) ==
    LET id == instruction.id
        p  == instruction.params
    IN  CASE instruction.type = "Import" ->
               IF Len(p) < 1 \/ p[1].t # "str"
               THEN Fails(ctx, coll, id, "InstructionException", PyStr(id))
               ELSE Outcome(add_import(ctx, p[1].v), completed(coll, id, NO_RESULT))
          [] instruction.type = "Make" ->
               IF Len(p) < 2 \/ p[1].t # "str" \/ p[2].t # "str"
               THEN Fails(ctx, coll, id, "InstructionException", PyStr(id))
               ELSE IF ~resolve_class(ctx, p[2].v)
               THEN Fails(ctx, coll, id, "NoSuchClassException", p[2].v)
               ELSE IF Len(p) > 2
               THEN Fails(ctx, coll, id, "NoSuchConstructorException", p[2].v)
               ELSE IF p[1].v \in ctx.instances
               THEN Fails(ctx, coll, id, "InstructionException", p[1].v)
               ELSE Outcome([ctx EXCEPT !.instances = @ \cup {p[1].v}],
                            completed(coll, id, NO_RESULT))
          [] instruction.type = "Call" ->
               execute_call(instruction, ctx, coll, p, <<>>)
          [] instruction.type = "CallAndAssign" ->
               IF Len(p) < 1 \/ p[1].t # "str"
               THEN Fails(ctx, coll, id, "InstructionException", PyStr(id))
               ELSE execute_call(instruction, ctx, coll, Tail(p), <<p[1].v>>)

----------------------------------------------------------------------------
(* protocol.py: Instructions.execute *)

\* the state of the loop over the unpacked list: the exception that ended it
\* ("none" if it ran to its end), the context and the collection
RECURSIVE Instructions_execute(_, _, _)
Instructions_execute(unpacked_list, ctx, coll) ==
    IF unpacked_list = <<>> THEN [err |-> "none", context |-> ctx, collected |-> coll]
    ELSE LET instruction == instruction_for(Head(unpacked_list))
         IN  IF instruction.err # "none"
             THEN [err |-> instruction.err, context |-> ctx, collected |-> coll]
             ELSE LET o == execute(instruction.val, ctx, coll)
                  IN  Instructions_execute(Tail(unpacked_list), o.context, o.collected)
----------------------------------------------------------------------------
(* protocol.py: RequestResponder *)

\* _format_response with the header counted into the length
_format_response_counts_header(msg) ==
    _ITEM_ENCODING(ByteLen(msg) + _NUMERIC_BLOCK_LENGTH, _SEPARATOR, msg)

\* _format_response(msg): the length of the encoded message, then the message
_format_response(msg) == _ITEM_ENCODING(ByteLen(msg), _SEPARATOR, msg)

\* _get_message_length's header_format and byte_size
header_format == _NUMERIC_ENCODING(0) \o <<_SEPARATOR>>
byte_size == ByteLen(header_format)

\* request.send(bytes): the number of bytes sent
request_send(bytes) == ByteLen(bytes)

\* respond_to_request returning the loop's totals, the banner left out
respond_to_request_return_without_ack(received_, sent_, ack_) == <<received_, sent_>>

\* respond_to_request's return value
respond_to_request_return(received_, sent_, ack_) == <<received_, sent_ + ack_>>

\* the test against the sentinel with a line end
is_disconnect_with_newline(body) == _DISCONNECT \o <<"\n">> = body

\* _message_loop's test of the body: _DISCONNECT == data
is_disconnect(body) == _DISCONNECT = body

\* one I/O event of the connection: its kind and the bytes that crossed
Event(kind, n) == [ev |-> kind, bytes |-> n]

\* request.recv(asked): the bytes asked for and the bytes delivered
Recv(kind, asked, n) == [ev |-> kind, bytes |-> n, asked |-> asked]

----------------------------------------------------------------------------
(* What the driver sends *)

\* bounds of the session: instructions per session, request frames that are
\* answered per session
MaxInstructions == 3
MaxBatches == 2

\* the instruction tuples a driver sends, with id `id`
Tuple(id, words) == ListV(<<StrV(id)>> \o [i \in 1..Len(words) |-> StrV(words[i])])

WellFormed(id) ==
    { Tuple(id, <<<<"i", "m", "p", "o", "r", "t">>, <<"m">>>>),
      Tuple(id, <<<<"m", "a", "k", "e">>, <<"x">>, <<"F">>>>),
      Tuple(id, <<<<"c", "a", "l", "l", "A", "n", "d", "A", "s", "s", "i", "g", "n">>, <<"s">>, <<"x">>, <<"z">>>>),
      Tuple(id, <<<<"c", "a", "l", "l">>, <<"x">>, <<"e">>, <<"$", "s">>>>) }

\* missing kind tag, unknown kind tag, empty tuple
Malformed(id) ==
    { Tuple(id, <<>>), Tuple(id, <<<<"b", "o", "g", "u", "s">>>>), ListV(<<>>) }

\* the id of the n-th instruction of the session
IdOf(n) == Decimal(n)

\* the batches whose first instruction is the n-th of the session
RECURSIVE Batches(_, _)
Batches(n, k) ==
    IF k <= 0 THEN { <<>> }
    ELSE { <<>> } \cup
         { <<t>> \o rest : t \in WellFormed(IdOf(n)) \cup Malformed(IdOf(n)),
                           rest \in Batches(n + 1, k - 1) }

\* a chunk with a trailing bracket mismatch: content between the separator
\* of the last item and the final ']'
TrailingMismatch(w) == SubSeq(w, 1, Len(w) - 1) \o <<_END_CHUNK, _END_CHUNK>>

\* bodies that are not the packing of a batch
MalformedFrames(n) ==
    { <<"[", "0", "0", "0", "0", "0", "1", ":", "0", "0", "0", "0", "0", "3", ":", "a", "b", "c", ":", "]", "]">>,
      TrailingMismatch(pack(<<Tuple(IdOf(n), <<<<"i", "m", "p", "o", "r", "t">>, <<"m">>>>)>>)),
      <<"[", "0", "0", "0", "0", "0", "1", ":", "0", "0", "0", "0", "0", "9", ":", "a", "b", "c", ":", "]">> }

\* the wire format of a string item and of an item list as a driver writes
\* them: every length field is the byte count of the UTF-8 encoding
RECURSIVE wire_item(_), wire_chunk(_)
wire_item(item) ==
    IF item.t = "list" THEN wire_item(StrV(wire_chunk(item.v)))
    ELSE _ITEM_ENCODING(ByteLen(item.v), _SEPARATOR, item.v)

wire_chunk(item_list) ==
    <<_START_CHUNK>>
    \o Join(<<_NUMERIC_ENCODING(Len(item_list))>>
            \o [i \in 1..Len(item_list) |-> wire_item(item_list[i])])
    \o <<_SEPARATOR>> \o <<_END_CHUNK>>

\* batches of one instruction with an argument outside ASCII
MultiByteBatches(n) ==
    { <<Tuple(IdOf(n), <<<<"i", "m", "p", "o", "r", "t">>, <<"é">>>>)>>,
      <<Tuple(IdOf(n), <<<<"i", "m", "p", "o", "r", "t">>, <<"a", "é">>>>)>> }

\* the bodies the driver may send when `done` instructions were sent before
Bodies(done) ==
    {_DISCONNECT}
    \cup { pack(b) : b \in Batches(done + 1, MaxInstructions - done) }
    \cup MalformedFrames(done + 1)
    \cup { wire_chunk(b) : b \in MultiByteBatches(done + 1) }
----------------------------------------------------------------------------
(* The session: respond_to_request, from the handshake to its return *)

\* _send_ack(request)
SendAck ==
    /\ pc = "handshake"
    /\ ack_bytes' = request_send(_VERSION)
    /\ log' = Append(log, Event("send_ack", ByteLen(_VERSION)))
    /\ pc' = "read_len"
    /\ UNCHANGED <<received, sent, message_length, data, batch, snapshot, frame,
                   context, error, returned, inbound, driver, collected, call>>

\* _get_message_length(): length and byte_size, from the bytes recv
\* delivered for the header; int() raises ValueError on what is no number
_get_message_length(header) ==
    LET length == PyInt(Slice(header, 0, _NUMERIC_LENGTH))
    IN  IF length.err # "none" THEN Raise(length.err)
        ELSE Ok(<<length.val, byte_size>>)

\* the driver writes a frame; the loop reads its header
GetMessageLength ==
    /\ pc = "read_len"
    /\ \E body \in IF driver.batches < MaxBatches
                   THEN Bodies(driver.instructions) ELSE {_DISCONNECT} :
          LET header == _ITEM_ENCODING(ByteLen(body), _SEPARATOR, <<>>)
              got    == _get_message_length(header).val
          IN  /\ inbound' = body
              /\ message_length' = got[1]
              /\ received' = received + got[2]
              /\ log' = Append(log, Recv("recv_header", byte_size, ByteLen(header)))
    /\ pc' = "read_body"
    /\ UNCHANGED <<sent, ack_bytes, data, batch, snapshot, frame, context,
                   error, returned, driver, collected, call>>

\* the rest of one turn of _message_loop, recv having delivered `body` and
\* left `rest` unread: either leave the loop and return, or unpack, execute,
\* pack and send
RecvBodyOf(body, rest) ==
    /\ pc = "read_body"
    /\ LET count     == received + message_length
           recv      == Recv(IF body = _DISCONNECT THEN "recv_bye" ELSE "recv_body",
                             message_length, ByteLen(body))
           unpacked  == unpack(body)
           run       == Instructions_execute(unpacked.val, context, collected)
           results   == collection(run.collected)
           response  == _format_response(pack(results))
       IN  /\ data' = body
           /\ received' = count
           /\ inbound' = rest
           /\ IF is_disconnect(body)
              THEN /\ pc' = "done"
                   /\ returned' = respond_to_request_return(count, sent, ack_bytes)
                   /\ log' = Append(log, recv)
                   /\ UNCHANGED <<sent, batch, snapshot, frame, context, error,
                                  driver, collected>>
              ELSE IF unpacked.err # "none"
              THEN /\ pc' = "failed"
                   /\ error' = unpacked.err
                   /\ log' = Append(log, recv)
                   /\ UNCHANGED <<sent, batch, snapshot, frame, context, returned,
                                  driver, collected>>
              ELSE /\ batch' = unpacked.val
                   /\ context' = run.context
                   /\ collected' = run.collected
                   /\ driver' = [instructions |-> driver.instructions + Len(unpacked.val),
                                 batches |-> driver.batches + 1]
                   /\ IF run.err # "none"
                      THEN /\ pc' = "failed"
                           /\ error' = run.err
                           /\ log' = Append(log, recv)
                           /\ UNCHANGED <<sent, snapshot, frame, returned>>
                      ELSE /\ snapshot' = results
                           /\ frame' = response
                           /\ sent' = sent + request_send(response)
                           /\ log' = log \o <<recv, Event("send_response", ByteLen(response))>>
                           /\ pc' = "read_len"
                           /\ UNCHANGED <<error, returned>>
    /\ UNCHANGED <<ack_bytes, message_length, call>>

\* recv delivers the whole body
RecvBody == RecvBodyOf(inbound, <<>>)

\* how many bytes past its body a frame may declare
MaxPadding == 2

\* the bodies of the frames a driver writes, and what follows a body on the
\* stream within the length its header declares
ShortPayloads ==
    { _DISCONNECT, pack(<<>>),
      pack(<<Tuple(<<"1">>, <<<<"i", "m", "p", "o", "r", "t">>, <<"m">>>>)>>) }
Padding == { SubSeq(<<"\r", "\n", "\r", "\n">>, 1, k) : k \in 0..MaxPadding }

\* _get_message_length on a connection that may deliver fewer than the 7
\* bytes asked for: the driver writes a frame, recv delivers the first k
\* bytes of what is unread
ShortGetMessageLength ==
    /\ pc = "read_len"
    /\ \E payload \in IF driver.batches < MaxBatches
                      THEN ShortPayloads ELSE {_DISCONNECT},
          padding \in Padding, k \in 0..byte_size :
          LET written == payload \o padding
              stream  == inbound \o _ITEM_ENCODING(ByteLen(written), _SEPARATOR, written)
              header  == Slice(stream, 0, k)
              got     == _get_message_length(header)
          IN  /\ inbound' = Slice(stream, k, Len(stream))
              /\ log' = Append(log, Recv("recv_header", byte_size, ByteLen(header)))
              /\ IF got.err # "none"
                 THEN /\ pc' = "failed"
                      /\ error' = got.err
                      /\ UNCHANGED <<message_length, received>>
                 ELSE /\ pc' = "read_body"
                      /\ message_length' = got.val[1]
                      /\ received' = received + got.val[2]
                      /\ UNCHANGED error
    /\ UNCHANGED <<sent, ack_bytes, data, batch, snapshot, frame, context,
                   returned, driver, collected, call>>

\* the rest of the turn on such a connection: recv(message_length) delivers
\* at most message_length of the unread bytes
ShortRecvBody ==
    \E d \in 0..message_length :
        /\ d <= Len(inbound)
        /\ RecvBodyOf(Slice(inbound, 0, d), Slice(inbound, d, Len(inbound)))

----------------------------------------------------------------------------
(* Several sessions side by side: each connection is served by its own call *)
(* of respond_to_request; the calls share the process's objects.            *)

\* how many sessions run side by side
MaxLanes == 2

\* Results() with _collected a list of the class, shared by every instance
Results_new_class_list(store) ==
    IF store = <<>> THEN [store |-> << <<>> >>, ref |-> 1]
    ELSE [store |-> store, ref |-> 1]
\* Results(): a new collector object whose _collected is a new empty list;
\* the object store afterwards and the reference to the new object
Results_new(store) ==
    [store |-> Append(store, <<>>), ref |-> Len(store) + 1]

\* ExecutionContext(): a new context object
ExecutionContext_new(store) ==
    [store |-> Append(store, NewContext), ref |-> Len(store) + 1]

\* what two drivers send: the first imports m, makes x and calls it; the
\* second makes and calls x without an import of its own
LaneScripts ==
    { << pack(<< Tuple(<<"1">>, <<<<"i", "m", "p", "o", "r", "t">>, <<"m">>>>),
                 Tuple(<<"2">>, <<<<"m", "a", "k", "e">>, <<"x">>, <<"F">>>>) >>),
         pack(<< Tuple(<<"3">>, <<<<"c", "a", "l", "l", "A", "n", "d", "A", "s", "s", "i", "g", "n">>, <<"s">>, <<"x">>, <<"z">>>>) >>),
         _DISCONNECT >>,
      << pack(<< Tuple(<<"1">>, <<<<"m", "a", "k", "e">>, <<"x">>, <<"F">>>>) >>),
         pack(<< Tuple(<<"2">>, <<<<"c", "a", "l", "l">>, <<"x">>, <<"e">>, <<"$", "s">>>>) >>),
         _DISCONNECT >>,
      << pack(<< Tuple(<<"9">>, <<<<"i", "m", "p", "o", "r", "t">>, <<"m">>>>) >>),
         _DISCONNECT >> }

IdleLane(script) ==
    [pc |-> "handshake", results |-> 0, context |-> 0, script |-> script,
     pos |-> 0, frames |-> <<>>, error |-> "none"]

\* respond_to_request up to the loop: the banner, then execution_context()
\* and results()
LaneStart(i) ==
    /\ lanes[i].pc = "handshake"
    /\ LET c == ExecutionContext_new(heap.contexts)
           r == Results_new(heap.results)
       IN  /\ heap' = [contexts |-> c.store, results |-> r.store]
           /\ lanes' = [lanes EXCEPT ![i].pc = "read", ![i].context = c.ref,
                                     ![i].results = r.ref]

\* one turn of _message_loop up to the end of instruction_list.execute
LaneRead(i) ==
    /\ lanes[i].pc = "read"
    /\ LET lane     == lanes[i]
           body     == lane.script[lane.pos + 1]
           unpacked == unpack(body)
           run      == Instructions_execute(unpacked.val, heap.contexts[lane.context],
                                            heap.results[lane.results])
       IN  IF is_disconnect(body)
           THEN /\ lanes' = [lanes EXCEPT ![i].pc = "done", ![i].pos = @ + 1]
                /\ UNCHANGED heap
           ELSE IF unpacked.err # "none"
           THEN /\ lanes' = [lanes EXCEPT ![i].pc = "failed", ![i].pos = @ + 1,
                                          ![i].error = unpacked.err]
                /\ UNCHANGED heap
           ELSE /\ heap' = [contexts |-> [heap.contexts EXCEPT ![lane.context] = run.context],
                            results  |-> [heap.results EXCEPT ![lane.results] = run.collected]]
                /\ lanes' = [lanes EXCEPT ![i].pos = @ + 1,
                                ![i].pc = IF run.err # "none" THEN "failed" ELSE "respond",
                                ![i].error = run.err]

\* the rest of the turn: results.collection(), pack, _format_response, send
LaneRespond(i) ==
    /\ lanes[i].pc = "respond"
    /\ LET results  == collection(heap.results[lanes[i].results])
           response == _format_response(pack(results))
       IN  lanes' = [lanes EXCEPT ![i].pc = "read", ![i].frames = Append(@, response)]
    /\ UNCHANGED heap

----------------------------------------------------------------------------
(* A collector whose snapshots are held and changed by their receiver: the  *)
(* lists are objects, held by reference.                                    *)

\* how many snapshots are taken
MaxSnapshots == 2

\* Results.collection() returning self._collected itself
Results_collection_same_list(store, self) == [store |-> store, ref |-> self]

\* Results.collection(): a new list object, extended with the entries of
\* self._collected; the object store afterwards and the reference returned
Results_collection(store, self) ==
    [store |-> Append(store, collection(store[self])), ref |-> Len(store) + 1]

\* an item a holder of a snapshot may add to it
ForeignEntry == ListV(<<StrV(<<"0">>), StrV(<<"a", "d", "d", "e", "d">>)>>)

\* completed(instruction) or completed(instruction, result)
SnapCompleted ==
    /\ Len(snap.recorded) < MaxCalls
    /\ \E id \in ResultIds, value \in {NO_RESULT, IntV(7)} :
          /\ lists' = [lists EXCEPT ![snap.self] = completed(@, id, value)]
          /\ snap' = [snap EXCEPT !.recorded = completed(@, id, value)]

\* raised(instruction, exception)
SnapRaised ==
    /\ Len(snap.recorded) < MaxCalls
    /\ \E id \in ResultIds :
          LET exception == Exception("NoSuchClassException", <<"N", "o", "S", "u", "c", "h">>)
          IN  /\ lists' = [lists EXCEPT ![snap.self] = raised(@, id, exception).val]
              /\ snap' = [snap EXCEPT !.recorded = raised(@, id, exception).val]

\* collection(): the caller keeps the list returned
SnapCollection ==
    /\ Len(lists) <= MaxSnapshots
    /\ LET r == Results_collection(lists, snap.self)
       IN  /\ lists' = r.store
           /\ snap' = [snap EXCEPT !.ref = r.ref, !.expected = lists[snap.self]]

\* the holder of the snapshot adds an item to it or removes its last item
SnapEdit ==
    /\ snap.ref # 0
    /\ \/ /\ Len(snap.expected) <= MaxCalls
          /\ lists' = [lists EXCEPT ![snap.ref] = Append(@, ForeignEntry)]
          /\ snap' = [snap EXCEPT !.expected = Append(@, ForeignEntry)]
       \/ /\ lists[snap.ref] # <<>> /\ snap.expected # <<>>
          /\ lists' = [lists EXCEPT ![snap.ref] = SubSeq(@, 1, Len(@) - 1)]
          /\ snap' = [snap EXCEPT !.expected = SubSeq(@, 1, Len(@) - 1)]

----------------------------------------------------------------------------
(* converters.py: the registry of converters *)

\* a converter object: its class and the attributes it exposes
ConverterObject(class, attrs) == [class |-> class, attrs |-> attrs]

BothOperations == {"from_string", "to_string"}

\* _ALL_CONVERTERS once the module is imported: the standard converters
StandardConverters ==
    [bool     |-> ConverterObject("TrueFalseConverter", BothOperations),
     int      |-> ConverterObject("FromConstructorConverter", BothOperations),
     float    |-> ConverterObject("FromConstructorConverter", BothOperations),
     date     |-> ConverterObject("DateConverter", BothOperations),
     time     |-> ConverterObject("TimeConverter", BothOperations),
     datetime |-> ConverterObject("DatetimeConverter", BothOperations),
     list     |-> ConverterObject("ListConverter", BothOperations)]

hasattr(object, name) == name \in object.attrs

\* register_converter asking for one of the two operations only
register_converter_either(converters, for_type, converter_instance) ==
    IF hasattr(converter_instance, "from_string")
       \/ hasattr(converter_instance, "to_string")
    THEN Ok((for_type :> converter_instance) @@ converters)
    ELSE Raise("TypeError")

\* register_converter(for_type, converter_instance): _ALL_CONVERTERS
\* afterwards, or the TypeError raised
register_converter(converters, for_type, converter_instance) ==
    IF hasattr(converter_instance, "from_string")
       /\ hasattr(converter_instance, "to_string")
    THEN Ok((for_type :> converter_instance) @@ converters)
    ELSE Raise("TypeError")

\* types a caller registers converters for: two with a standard converter,
\* two of its own
RegisteredTypes == {"bool", "int", "Money", "Colour"}

\* objects offered as converters: with both operations, with one, with none
OfferedConverters ==
    { ConverterObject("YesNoConverter", BothOperations),
      ConverterObject("MoneyConverter", BothOperations \cup {"currency"}),
      ConverterObject("OnlyTo", {"to_string"}),
      ConverterObject("OnlyFrom", {"from_string"}),
      ConverterObject("object", {}) }

NoRegistration == [for_type |-> "none", converter |-> ConverterObject("none", {}),
                   err |-> "none", before |-> StandardConverters]

RegisterConverter ==
    \E for_type \in RegisteredTypes, converter_instance \in OfferedConverters :
        LET r == register_converter(registry, for_type, converter_instance)
        IN  /\ registry' = IF r.err = "none" THEN r.val ELSE registry
            /\ reg_call' = [for_type |-> for_type, converter |-> converter_instance,
                            err |-> r.err, before |-> registry]

----------------------------------------------------------------------------
(* The numeric blocks of large lists and payloads: the items and payloads *)
(* themselves are left out, their sizes are what the blocks are made from.  *)

\* the largest list size and payload length written
MaxLength == 1000000

\* how many sizes below MaxLength are written
NearLengths == 40

Sizes == {0, 1, 9, 10, 99999, 100000} \cup (MaxLength - NearLengths)..MaxLength

NoNumeric == [op |-> "none", n |-> 0, block |-> <<>>]

\* pack(item_list): the count written for a list of n items
PackCount ==
    \E n \in Sizes :
        numeric' = [op |-> "pack_count", n |-> n,
                    block |-> _NUMERIC_ENCODING(n) \o <<_SEPARATOR>>]

\* _pack_item(item): what is written ahead of a payload of n characters
PackItemLength ==
    \E n \in Sizes :
        numeric' = [op |-> "pack_item", n |-> n,
                    block |-> _ITEM_ENCODING(n, _SEPARATOR, <<>>)]

\* _format_response(msg): what is written ahead of a message of n bytes
FormatResponseLength ==
    \E n \in Sizes :
        numeric' = [op |-> "format_response", n |-> n,
                    block |-> _ITEM_ENCODING(n, _SEPARATOR, <<>>)]

----------------------------------------------------------------------------
(* Initial states and specifications *)

InitCodecIdle ==
    /\ cpc = "idle" /\ ctree = <<>> /\ cwire = <<>>
    /\ cfault = "none" /\ cresult = Ok(<<>>)

InitResults == collected = <<>> /\ call = NoCall

InitSessionIdle ==
    /\ pc = "handshake" /\ received = 0 /\ sent = 0 /\ ack_bytes = 0
    /\ message_length = 0 /\ data = <<>> /\ batch = <<>> /\ snapshot = <<>>
    /\ frame = <<>> /\ context = NewContext /\ log = <<>> /\ error = "none"
    /\ returned = <<>> /\ inbound = <<>>
    /\ driver = [instructions |-> 0, batches |-> 0]

InitHeap == heap = [contexts |-> <<>>, results |-> <<>>]

InitLanesIdle == InitHeap /\ lanes = <<>>

\* a collector after Results.__init__: its list is object 1, no snapshot yet
InitSnap ==
    /\ lists = << <<>> >>
    /\ snap = [self |-> 1, ref |-> 0, recorded |-> <<>>, expected |-> <<>>]

\* converters imported, nothing registered by a caller
InitRegistry == registry = StandardConverters /\ reg_call = NoRegistration

InitNumeric == numeric = NoNumeric

\* one connection served by respond_to_request
Init == InitCodecIdle /\ InitResults /\ InitSessionIdle /\ InitLanesIdle /\ InitSnap
        /\ InitRegistry /\ InitNumeric
Next ==
    \/ SendAck /\ UNCHANGED <<codecVars, laneVars, snapVars, registryVars, numericVars>>
    \/ GetMessageLength /\ UNCHANGED <<codecVars, laneVars, snapVars, registryVars, numericVars>>
    \/ RecvBody /\ UNCHANGED <<codecVars, laneVars, snapVars, registryVars, numericVars>>
Spec == Init /\ [][Next]_vars

\* the codec applied to every bounded item list
InitCodec ==
    /\ cpc = "in" /\ ctree \in Trees /\ cwire = <<>>
    /\ cfault = "none" /\ cresult = Ok(<<>>)
    /\ InitResults /\ InitSessionIdle /\ InitLanesIdle /\ InitSnap
    /\ InitRegistry /\ InitNumeric
NextCodec ==
    \/ CodecPack /\ UNCHANGED <<resultsVars, sessionVars, laneVars, snapVars, registryVars, numericVars>>
    \/ CodecCorrupt /\ UNCHANGED <<resultsVars, sessionVars, laneVars, snapVars, registryVars, numericVars>>
    \/ CodecUnpack /\ UNCHANGED <<resultsVars, sessionVars, laneVars, snapVars, registryVars, numericVars>>
SpecCodec == InitCodec /\ [][NextCodec]_vars

\* the Results collector driven directly
NextResults ==
    \/ ResultsCompleted /\ UNCHANGED <<codecVars, sessionVars, laneVars, snapVars, registryVars, numericVars>>
    \/ ResultsCompletedWith /\ UNCHANGED <<codecVars, sessionVars, laneVars, snapVars, registryVars, numericVars>>
    \/ ResultsRaised /\ UNCHANGED <<codecVars, sessionVars, laneVars, snapVars, registryVars, numericVars>>
    \/ ResultsRaisedOther /\ UNCHANGED <<codecVars, sessionVars, laneVars, snapVars, registryVars, numericVars>>
    \/ ResultsCompletedWithList /\ UNCHANGED <<codecVars, sessionVars, laneVars, snapVars, registryVars, numericVars>>
SpecResults == Init /\ [][NextResults]_vars

\* MaxLanes connections, each with its own driver, in any interleaving
InitLanes ==
    /\ InitCodecIdle /\ InitResults /\ InitSessionIdle /\ InitHeap /\ InitSnap
    /\ InitRegistry /\ InitNumeric
    /\ lanes \in [1..MaxLanes -> { IdleLane(script) : script \in LaneScripts }]
NextLanes ==
    \/ \E i \in 1..MaxLanes : LaneStart(i) /\ UNCHANGED <<codecVars, resultsVars, sessionVars, snapVars, registryVars, numericVars>>
    \/ \E i \in 1..MaxLanes : LaneRead(i) /\ UNCHANGED <<codecVars, resultsVars, sessionVars, snapVars, registryVars, numericVars>>
    \/ \E i \in 1..MaxLanes : LaneRespond(i) /\ UNCHANGED <<codecVars, resultsVars, sessionVars, snapVars, registryVars, numericVars>>
SpecLanes == InitLanes /\ [][NextLanes]_vars

\* one collector, its snapshots and their holder
NextSnapshot ==
    \/ SnapCompleted /\ UNCHANGED <<codecVars, resultsVars, sessionVars, laneVars, registryVars, numericVars>>
    \/ SnapRaised /\ UNCHANGED <<codecVars, resultsVars, sessionVars, laneVars, registryVars, numericVars>>
    \/ SnapCollection /\ UNCHANGED <<codecVars, resultsVars, sessionVars, laneVars, registryVars, numericVars>>
    \/ SnapEdit /\ UNCHANGED <<codecVars, resultsVars, sessionVars, laneVars, registryVars, numericVars>>
SpecSnapshot == Init /\ [][NextSnapshot]_vars

\* callers registering converters
NextRegistry ==
    RegisterConverter /\ UNCHANGED <<codecVars, resultsVars, sessionVars, laneVars,
                                    snapVars, numericVars>>
SpecRegistry == Init /\ [][NextRegistry]_vars

\* one connection whose recv may deliver fewer bytes than asked for
NextShortRead ==
    \/ SendAck /\ UNCHANGED <<codecVars, laneVars, snapVars, registryVars, numericVars>>
    \/ ShortGetMessageLength /\ UNCHANGED <<codecVars, laneVars, snapVars, registryVars, numericVars>>
    \/ ShortRecvBody /\ UNCHANGED <<codecVars, laneVars, snapVars, registryVars, numericVars>>
SpecShortRead == Init /\ [][NextShortRead]_vars

\* counts and lengths up to MaxLength written by pack and _format_response
NextNumeric ==
    \/ PackCount /\ UNCHANGED <<codecVars, resultsVars, sessionVars, laneVars, snapVars, registryVars>>
    \/ PackItemLength /\ UNCHANGED <<codecVars, resultsVars, sessionVars, laneVars, snapVars, registryVars>>
    \/ FormatResponseLength /\ UNCHANGED <<codecVars, resultsVars, sessionVars, laneVars, snapVars, registryVars>>
SpecNumeric == Init /\ [][NextNumeric]_vars
----------------------------------------------------------------------------
(* Properties of the session *)

\* the last thing the connection did was to send a response
Responded == log # <<>> /\ log[Len(log)].ev = "send_response"

\* the ids of a list of tuples (instruction tuples, result entries)
IdsOf(tuples) == [i \in 1..Len(tuples) |-> tuples[i].v[1]]

IsPrefix(p, s) == Len(p) <= Len(s) /\ SubSeq(s, 1, Len(p)) = p

\* C1: the result list sent in the response to a batch of K instructions has
\* exactly K entries, whose ids are the batch's ids in receipt order, for
\* the first batch of a session and for every later one.
C1_BatchProgress ==
    Responded => /\ Len(snapshot) = Len(batch)
                 /\ IdsOf(snapshot) = IdsOf(batch)

\* an instruction tuple with no kind tag, an unknown kind tag, or no element
IsMalformedTuple(item) ==
    /\ item.t = "list"
    /\ \/ Len(item.v) < 2
       \/ item.v[2].t # "str"
       \/ \A k \in DOMAIN KindTags : KindTags[k] # item.v[2].v

MalformedPayload == _EXCEPTION \o <<" ", "m", "e", "s", "s", "a", "g", "e", ":", "<", "<", "M", "A", "L", "F", "O", "R", "M", "E", "D", "_", "I", "N", "S", "T", "R", "U", "C", "T", "I", "O", "N">>

\* C2: a malformed instruction tuple in a decoded batch does not end the
\* session: an exception result tagged MALFORMED_INSTRUCTION is recorded for
\* it and the response for the batch is sent.
C2_MalformedInstructionRecorded ==
    \A i \in 1..Len(batch) :
        IsMalformedTuple(batch[i]) =>
            /\ error = "none"
            /\ \E j \in 1..Len(snapshot) : IsPrefix(MalformedPayload, snapshot[j].v[2].v)

----------------------------------------------------------------------------
(* Properties of the codec *)

\* C3: for every item list t of strings and nested lists, including empty
\* strings, empty lists and strings made of '[', ']' and ':',
\* unpack(pack(t)) = t.
C3_RoundTrip ==
    (cpc = "done" /\ cfault = "none") => cresult = Ok(ctree)

\* C4: a packed string with a missing leading '[', a missing trailing ']', a
\* missing separator after the count, after an item length or after an item
\* payload, or an item length that runs past the end, is rejected by unpack
\* with UnpackingError and no other error.
C4_RejectsWithUnpackingError ==
    (cpc = "done" /\ cfault # "none") => cresult.err = "UnpackingError"

\* a well-formed chunk with one more ']' between the separator of its last
\* item and its final ']'
IsTrailingMismatch(body) ==
    /\ Len(body) >= 3
    /\ body[Len(body)] = _END_CHUNK
    /\ body[Len(body) - 1] = _END_CHUNK
    /\ body[Len(body) - 2] = _SEPARATOR
    /\ unpack(SubSeq(body, 1, Len(body) - 1)).err = "none"

\* C5: a body with a trailing bracket mismatch ends the session with
\* UnpackingError and no response is sent for it.
C5_MalformedFrameIsUnpackingError ==
    (pc # "read_body" /\ IsTrailingMismatch(data)) =>
        /\ pc = "failed"
        /\ error = "UnpackingError"
        /\ ~Responded
----------------------------------------------------------------------------
(* Properties of the session's I/O order and totals *)

EventsOf(kinds) == { i \in 1..Len(log) : log[i].ev \in kinds }

RECURSIVE SumBytes(_, _)
SumBytes(events, kinds) ==
    IF events = <<>> THEN 0
    ELSE (IF Head(events).ev \in kinds THEN Head(events).bytes ELSE 0)
         + SumBytes(Tail(events), kinds)

\* C7: when the session ends on 'bye', the returned totals are the bytes
\* read (7 per header plus each body, the bye frame included) and the bytes
\* sent (the 13 of the banner plus every response frame); handshake then
\* bye gives (10, 13).
C7_RunningTotals ==
    pc = "done" =>
        /\ returned = << SumBytes(log, {"recv_header", "recv_body", "recv_bye"}),
                         13 + SumBytes(log, {"send_response"}) >>
        /\ Len(log) = 3 => returned = <<10, 13>>

\* a session that sent two responses before 'bye'
C7_Witness ==
    /\ pc = "done"
    /\ Cardinality(EventsOf({"send_response"})) = 2
    /\ returned[2] > 13

----------------------------------------------------------------------------
(* Properties of the Results collector *)

LastEntry == collected[Len(collected)]

\* C8: completed(id) records (id, 'OK'); completed(id, value) records
\* (id, '/__VOID__/') only for the absent value and (id, to_string(value))
\* for every other value, 0, False and the empty string included.
C8_PayloadMapping ==
    /\ call.op = "completed" =>
          collected = Append(call.before, ListV(<<call.id, StrV(<<"O", "K">>)>>))
    /\ call.op = "completed_with" =>
          collected = Append(call.before,
              ListV(<<call.id,
                      StrV(IF call.arg = NoneV THEN <<"/", "_", "_", "V", "O", "I", "D", "_", "_", "/">>
                           ELSE convert_value(call.arg))>>))

\* the tag the wire protocol gives each error kind
TagOf(type) ==
    CASE type = "InstructionException"       -> <<"M", "A", "L", "F", "O", "R", "M", "E", "D", "_", "I", "N", "S", "T", "R", "U", "C", "T", "I", "O", "N">>
      [] type = "NoSuchClassException"       -> <<"N", "O", "_", "C", "L", "A", "S", "S">>
      [] type = "NoSuchConstructorException" -> <<"C", "O", "U", "L", "D", "_", "N", "O", "T", "_", "I", "N", "V", "O", "K", "E", "_", "C", "O", "N", "S", "T", "R", "U", "C", "T", "O", "R">>
      [] type = "NoSuchInstanceException"    -> <<"N", "O", "_", "I", "N", "S", "T", "A", "N", "C", "E">>
      [] type = "NoSuchMethodException"      -> <<"N", "O", "_", "M", "E", "T", "H", "O", "D", "_", "I", "N", "_", "C", "L", "A", "S", "S">>

\* C9: raised(id, exception) appends exactly one entry
\* (id, '__EXCEPTION__: message:<<TAG detail>>'), TAG by the error kind and
\* detail the exception's message; a missing class NoSuch gives
\* '__EXCEPTION__: message:<<NO_CLASS NoSuch>>'.
C9_ExceptionPayload ==
    call.op = "raised" =>
        /\ collected = Append(call.before,
              ListV(<<call.id,
                      StrV(<<"_", "_", "E", "X", "C", "E", "P", "T", "I", "O", "N", "_", "_", ":", " ", "m", "e", "s", "s", "a", "g", "e", ":", "<", "<">> \o TagOf(call.arg.type)
                           \o <<" ">> \o call.arg.args[1].v \o <<">", ">">>)>>))
        /\ (call.arg.type = "NoSuchClassException" /\ call.arg.args[1].v = <<"N", "o", "S", "u", "c", "h">>)
              => LastEntry.v[2].v = <<"_", "_", "E", "X", "C", "E", "P", "T", "I", "O", "N", "_", "_", ":", " ", "m", "e", "s", "s", "a", "g", "e", ":", "<", "<", "N", "O", "_", "C", "L", "A", "S", "S", " ", "N", "o", "S", "u", "c", "h", ">", ">">>

\* raised for a missing class, on a collector that already holds an entry
C9_Witness ==
    /\ call.op = "raised"
    /\ call.arg.type = "NoSuchClassException"
    /\ call.arg.args[1].v = <<"N", "o", "S", "u", "c", "h">>
    /\ Len(call.before) = 1
    /\ Len(collected) = 2

----------------------------------------------------------------------------
(* Properties of the response frame *)

\* C10: a response frame is NNNNNN:<body>: <body> is the packed result list
\* and NNNNNN the decimal byte length of <body>, so that 7 bytes and then
\* NNNNNN bytes are exactly the frame.
C10_ResponseFraming ==
    Responded =>
        LET body == Slice(frame, _NUMERIC_BLOCK_LENGTH, Len(frame))
        IN  /\ Len(frame) >= _NUMERIC_BLOCK_LENGTH
            /\ PyInt(Slice(frame, 0, _NUMERIC_LENGTH)) = Ok(ByteLen(body))
            /\ frame[_NUMERIC_LENGTH + 1] = _SEPARATOR
            /\ body = pack(snapshot)
            /\ log[Len(log)].bytes = _NUMERIC_BLOCK_LENGTH + ByteLen(body)

\* a second response of a session, carrying more than one result
C10_Witness ==
    /\ Responded
    /\ Cardinality(EventsOf({"send_response"})) = 2
    /\ Len(snapshot) >= 2
----------------------------------------------------------------------------
(* Properties of byte lengths *)

\* C11: every item length on the wire is the byte count of the item's UTF-8
\* encoding: the response carries the result list with byte-counted lengths,
\* and a body whose lengths are byte counts, multi-byte characters included,
\* is decoded to the items it was written from.
C11_ByteLengthExactness ==
    /\ Responded =>
          Slice(frame, _NUMERIC_BLOCK_LENGTH, Len(frame)) = wire_chunk(snapshot)
    /\ \A n \in 1..(MaxInstructions + 1) : \A b \in MultiByteBatches(n) :
          (pc # "read_body" /\ data = wire_chunk(b)) =>
              /\ error = "none"
              /\ batch = b
----------------------------------------------------------------------------
(* Properties of sessions side by side *)

\* a session served alone: the collection, the context and the responses
\* after the first k bodies of its script
RECURSIVE Alone(_, _)
Alone(script, k) ==
    IF k = 0 THEN [err |-> "none", context |-> NewContext, collected |-> <<>>,
                   frames |-> <<>>]
    ELSE LET before == Alone(script, k - 1)
             body   == script[k]
             run    == Instructions_execute(unpack(body).val, before.context,
                                            before.collected)
         IN  IF before.err # "none" \/ is_disconnect(body) THEN before
             ELSE IF unpack(body).err # "none"
             THEN [before EXCEPT !.err = unpack(body).err]
             ELSE [err |-> run.err, context |-> run.context,
                   collected |-> run.collected,
                   frames |-> IF run.err # "none" THEN before.frames
                              ELSE Append(before.frames,
                                          _format_response(pack(run.collected)))]

Started(i) == lanes[i].pc # "handshake"

\* C12: every session has a context and a collector of its own; whatever the
\* interleaving, a session's results, instances, symbols and imports are
\* those it has when served alone, and two sessions fed the same traffic
\* send the same response bytes.
C12_SessionIsolation ==
    \A i \in DOMAIN lanes :
        /\ \A j \in DOMAIN lanes :
              (i # j /\ Started(i) /\ Started(j)) =>
                  /\ lanes[i].results # lanes[j].results
                  /\ lanes[i].context # lanes[j].context
                  /\ lanes[i].script = lanes[j].script =>
                        \/ IsPrefix(lanes[i].frames, lanes[j].frames)
                        \/ IsPrefix(lanes[j].frames, lanes[i].frames)
        /\ Started(i) =>
              LET alone == Alone(lanes[i].script, lanes[i].pos)
              IN  /\ heap.results[lanes[i].results] = alone.collected
                  /\ heap.contexts[lanes[i].context] = alone.context
                  /\ lanes[i].pc \in {"read", "done"} => lanes[i].frames = alone.frames

\* two sessions with different traffic, both ended, each having answered
\* two batches
C12_Witness ==
    /\ Len(lanes) >= 2
    /\ lanes[1].script # lanes[2].script
    /\ lanes[1].pc = "done" /\ lanes[2].pc = "done"
    /\ Len(lanes[1].frames) = 2 /\ Len(lanes[2].frames) = 2
    /\ heap.contexts[lanes[1].context] # heap.contexts[lanes[2].context]
----------------------------------------------------------------------------
(* Properties of the snapshot *)

\* C13: the list returned by collection() is a copy: it holds what the
\* collector held when it was taken and what its holder did to it since,
\* whatever completed and raised recorded afterwards; and the collector
\* holds what completed and raised recorded, whatever was added to or
\* removed from the snapshot.
C13_SnapshotStability ==
    /\ lists[snap.self] = snap.recorded
    /\ snap.ref # 0 =>
          /\ snap.ref # snap.self
          /\ lists[snap.ref] = snap.expected

\* a snapshot taken of one entry, then changed by its holder, with a second
\* entry recorded in the collector since
C13_Witness ==
    /\ snap.ref # 0
    /\ Len(snap.recorded) = 2
    /\ lists[snap.ref] # <<>>
    /\ lists[snap.ref][Len(lists[snap.ref])] = ForeignEntry
    /\ lists[snap.ref][1] = snap.recorded[1]
    /\ Len(lists[snap.ref]) = 2
----------------------------------------------------------------------------
(* Properties of the converter registry *)

\* C14: register_converter raises TypeError for an object that does not
\* expose both from_string and to_string and leaves the registry as it was,
\* the converter registered before for that type included; an object that
\* exposes both becomes the entry of that type and no other entry changes.
C14_RegistrationChecksOperations ==
    reg_call.for_type # "none" =>
        IF {"from_string", "to_string"} \subseteq reg_call.converter.attrs
        THEN /\ reg_call.err = "none"
             /\ DOMAIN registry = DOMAIN reg_call.before \cup {reg_call.for_type}
             /\ registry[reg_call.for_type] = reg_call.converter
             /\ \A t \in DOMAIN reg_call.before :
                   t # reg_call.for_type => registry[t] = reg_call.before[t]
        ELSE /\ reg_call.err = "TypeError"
             /\ registry = reg_call.before

\* an object with to_string alone refused for bool, after the yes/no
\* converter had replaced the standard one
C14_Witness ==
    /\ reg_call.for_type = "bool"
    /\ reg_call.converter.attrs = {"to_string"}
    /\ reg_call.err = "TypeError"
    /\ registry["bool"].class = "YesNoConverter"
    /\ "Money" \in DOMAIN registry
----------------------------------------------------------------------------
(* Properties of short reads *)

\* the reads that delivered fewer bytes than were asked for
ShortReads ==
    { i \in EventsOf({"recv_header", "recv_body", "recv_bye"}) :
          log[i].bytes < log[i].asked }

\* C15: when recv delivers fewer than the 7 bytes of a header or fewer than
\* the L bytes of a body, the session stops there with an error: nothing is
\* read or sent after the short read, the session does not end as on 'bye',
\* and the bytes counted as received are not more than were delivered.
C15_ShortReadIsFatal ==
    \A i \in ShortReads :
        /\ pc = "failed"
        /\ error # "none"
        /\ i = Len(log)
        /\ received <= SumBytes(log, {"recv_header", "recv_body", "recv_bye"})
----------------------------------------------------------------------------
(* Properties of nested-chunk detection *)

\* the payload pack writes for an item
PayloadOf(item) == IF item.t = "list" THEN pack(item.v) ELSE str_item(item)

\* C16: unpack parses every item payload that begins with '[' as a nested
\* chunk, so the packed string is rejected when such a payload is not a
\* well-formed chunk (it does not end with ']', say), and returns every
\* other payload as a string, unchanged.
C16_NestedChunkDetection ==
    (cpc = "done" /\ cfault = "none") =>
        IF \E i \in 1..Len(ctree) :
              /\ startswith(PayloadOf(ctree[i]), _START_CHUNK)
              /\ unpack(PayloadOf(ctree[i])).err # "none"
        THEN cresult.err # "none"
        ELSE /\ cresult.err = "none"
             /\ Len(cresult.val) = Len(ctree)
             /\ \A i \in 1..Len(ctree) :
                   IF startswith(PayloadOf(ctree[i]), _START_CHUNK)
                   THEN cresult.val[i] = ListV(unpack(PayloadOf(ctree[i])).val)
                   ELSE cresult.val[i] = StrV(PayloadOf(ctree[i]))
----------------------------------------------------------------------------
(* Properties of exceptions outside the known kinds *)

IsSuffix(p, s) == Len(p) <= Len(s) /\ SubSeq(s, Len(s) - Len(p) + 1, Len(s)) = p

\* C17: raised(id, exception) with an exception whose class is not one of
\* the five of _EXCEPTIONS, a subclass of one of them included, does not
\* fail: it appends exactly one entry for id, whose payload is
\* '__EXCEPTION__: message:<<' then a tag, a blank, the exception's message
\* and '>>'.
C17_UnknownKindGenericTag ==
    call.op = "raised_other" =>
        /\ call.err = "none"
        /\ Len(collected) = Len(call.before) + 1
        /\ IsPrefix(call.before, collected)
        /\ LastEntry.v[1] = call.id
        /\ IsPrefix(<<"_", "_", "E", "X", "C", "E", "P", "T", "I", "O", "N", "_", "_", ":", " ", "m", "e", "s", "s", "a", "g", "e", ":", "<", "<">>, LastEntry.v[2].v)
        /\ IsSuffix(<<" ">> \o call.arg.args[1].v \o <<">", ">">>, LastEntry.v[2].v)
----------------------------------------------------------------------------
(* Properties of list results *)

\* the wire list of a list value: its items converted one by one
WireList(value) ==
    ListV([i \in 1..Len(value.v) |-> StrV(convert_value(value.v[i]))])

\* C18: completed(id, value) with a list as the value records an entry whose
\* payload is the list of the element-wise converted strings, and the
\* encoded collection carries that payload as a nested chunk, not as one
\* string.
C18_ListResultIsWireList ==
    call.op = "completed_with_list" =>
        /\ collected = Append(call.before, ListV(<<call.id, WireList(call.arg)>>))
        /\ pack(<<LastEntry>>) = wire_chunk(<<ListV(<<call.id, WireList(call.arg)>>)>>)
----------------------------------------------------------------------------
(* Properties of the numeric blocks *)

\* C19: every count and every length written by pack and _format_response
\* is a zero-padded decimal of exactly 6 digits followed by the separator,
\* whatever the list size or payload length: a numeric block of 7 bytes
\* whose digits read back as the number written.
C19_FixedWidthCounts ==
    numeric.op # "none" =>
        /\ Len(numeric.block) = _NUMERIC_BLOCK_LENGTH
        /\ \A i \in 1.._NUMERIC_LENGTH : IsDigit(numeric.block[i])
        /\ numeric.block[_NUMERIC_BLOCK_LENGTH] = _SEPARATOR
        /\ PyInt(Slice(numeric.block, 0, _NUMERIC_LENGTH)) = Ok(numeric.n)
----------------------------------------------------------------------------
(* Properties of the collector over a session *)

\* C20: within a session the collector only grows at its end: no step
\* removes, reorders or clears entries; the result list of every response
\* starts with the result list of the response before it, is the whole
\* collection, and has one entry for each instruction executed so far in
\* the session (each makes one call of completed or raised).
C20_AppendOnlyCollector ==
    [][ /\ IsPrefix(collected, collected')
        /\ IsPrefix(snapshot, snapshot')
        /\ (Responded' /\ log' # log) =>
              /\ snapshot' = collected'
              /\ Len(snapshot') = driver'.instructions
              /\ Len(snapshot') = Len(snapshot) + Len(batch') ]_vars

\* a second response that carries the three results of the session, two of
\* them from the batch before, one of them an exception
C20_Witness ==
    /\ Responded
    /\ Cardinality(EventsOf({"send_response"})) = 2
    /\ Len(snapshot) = 3
    /\ Len(batch) = 1
    /\ \E j \in 1..2 : IsPrefix(_EXCEPTION, snapshot[j].v[2].v)

====
